---------------------------- MODULE Spec2Model ----------------------------
(***************************************************************************)
(* A model of climb-stats: the comment tokenizer                           *)
(* (enter_climbs.get_climb_entries_from_climbing_day), the ClimbEntry data *)
(* model (core.py) and the fuzzy match ranking (enter_climbs.get_matches). *)
(*                                                                         *)
(* A Python str is modelled as a sequence of one-character strings, so     *)
(* that indexing, strip(), len() and the substring test `in` are computed  *)
(* as Python computes them.                                                *)
(***************************************************************************)
EXTENDS Integers, Sequences, FiniteSets, TLC

VARIABLES
    \* ---- get_climb_entries_from_climbing_day (enter_climbs.py:117-173)
    comment,             \* the log text being scanned
    place_and_climbers,  \* the day's participant context
    state,               \* "name" | "comment"
    climb_entries,       \* the list of ClimbEntry built so far
    name_approx,         \* name accumulator
    climb_comment,       \* comment accumulator
    idx_entry_start,     \* offset where the current entry began
    idx,                 \* loop index of `for idx, char in enumerate(comment)`
    tok_pc,              \* "scan" | "done" | "idle"
    \* ---- ClimbEntry.replace_climb_events (core.py:117-125)
    climb_entry,         \* the ClimbEntry operated on (self)
    last_call,           \* arguments of the most recent replace_climb_events call
    ncalls,              \* number of replace_climb_events calls made
    repeated,            \* the most recent call had the arguments of the one before
    \* ---- get_matches (enter_climbs.py:259-280)
    climbs_info,         \* the registry: insertion-ordered list of ClimbInfo
    fuzz,                \* fuzz.partial_token_sort_ratio(name_approx, alias), per alias
    rows,                \* the rows list built by the loops
    ranking,             \* the table after matches.sort(...)
    matches,             \* the returned table
    match_pc,            \* "call" | "done" | "error" | "idle"
    \* ---- ClimbEntry(...) and get_new_climb_events called on their own
    ctor_args,           \* the comment and climbers passed to ClimbEntry(...)
    new_climb_events,    \* what get_new_climb_events returned: (climber, events)
    \* ---- process_log_entries, process_climb_entry (enter_climbs.py:191-349)
    log_entries,         \* the log rows: Date, Comments, Climb
    force,               \* the force argument
    climbing_days,       \* the day store: ClimbingDay records, one per date
    row,                 \* number of log rows taken by the outer for loop
    climbing_day,        \* the ClimbingDay being built
    entry_idx,           \* number of entries taken by the inner for loop
    key,                 \* the key read last by get_key
    typed,               \* the lines read by input() for that key
    proc_pc              \* position in process_log_entries / process_climb_entry

tok_vars == <<comment, place_and_climbers, state, climb_entries, name_approx,
              climb_comment, idx_entry_start, idx, tok_pc>>
entry_vars == <<climb_entry, last_call, ncalls, repeated>>
match_vars == <<climbs_info, fuzz, rows, ranking, matches, match_pc>>
proc_vars == <<ctor_args, new_climb_events, log_entries, force, climbing_days, row, climbing_day,
               entry_idx, key, typed, proc_pc>>
vars == <<tok_vars, entry_vars, match_vars, proc_vars>>

\* Python None
None == [none |-> TRUE]

(***************************************************************************)
(* Bounds of the model.                                                    *)
(***************************************************************************)
\* longest enumerated log text
MaxLen == 4
\* most events an entry starts with / most events passed to one call
MaxEvents == 2
\* most replace_climb_events calls in one behaviour
MaxCalls == 2
\* most ClimbInfo records in the registry
MaxClimbs == 3

(***************************************************************************)
(* Python str helpers.                                                     *)
(***************************************************************************)
\* All sequences over S of length 0..n.
RECURSIVE SeqsUpTo(_, _)
SeqsUpTo(S, n) ==
    IF n = 0 THEN {<<>>}
    ELSE LET shorter == SeqsUpTo(S, n - 1)
         IN  shorter \cup {Append(s, c) : s \in {t \in shorter : Len(t) = n - 1}, c \in S}

Whitespace == {" ", "\t", "\n"}

RECURSIVE LStrip(_)
LStrip(s) == IF s # <<>> /\ Head(s) \in Whitespace THEN LStrip(Tail(s)) ELSE s

RECURSIVE RStrip(_)
RStrip(s) ==
    IF s # <<>> /\ s[Len(s)] \in Whitespace THEN RStrip(SubSeq(s, 1, Len(s) - 1)) ELSE s

\* a mutant of Strip: strips the left end only
StripLeftOnly(s) == LStrip(s)

\* str.strip()
Strip(s) == RStrip(LStrip(s))

\* Python `sub in s` for strings
Contains(s, sub) ==
    \E i \in 0..(Len(s) - Len(sub)) : SubSeq(s, i + 1, i + Len(sub)) = sub

TA == <<"T", "A">>
AS == <<"A", "S">>
\* the literal ["TA", "AS"] of both comprehensions
ClimberVocabulary == <<TA, AS>>

(***************************************************************************)
(* core.py data model.                                                     *)
(***************************************************************************)
ClimbEvent(climber, hang) == [climber |-> climber, hang |-> hang]

RECURSIVE EventsFor(_)
EventsFor(cs) ==
    IF cs = <<>> THEN <<>> ELSE <<ClimbEvent(Head(cs), FALSE)>> \o EventsFor(Tail(cs))

\* a mutant of ClimbEntry: the supplied climbers win over those of the comment
ClimbEntryClimbersFirst(name, cmt, cs, start) ==
    LET found == SelectSeq(ClimberVocabulary, LAMBDA c : Contains(cmt, c))
        who == IF cs = <<>> THEN found ELSE cs
    IN  [name_approx |-> name, comment |-> cmt, climbers |-> cs, climb_info |-> None,
         climb_events |-> EventsFor(who), idx_entry_start |-> start]

\* a mutant of ClimbEntry: no fallback to the supplied climbers
ClimbEntryNoFallback(name, cmt, cs, start) ==
    LET found == SelectSeq(ClimberVocabulary, LAMBDA c : Contains(cmt, c))
    IN  [name_approx |-> name, comment |-> cmt, climbers |-> cs, climb_info |-> None,
         climb_events |-> EventsFor(found), idx_entry_start |-> start]

\* ClimbEntry(...) with climb_info and climb_events defaulted, then __post_init__
ClimbEntry(name, cmt, cs, start) ==
    LET found == SelectSeq(ClimberVocabulary, LAMBDA c : Contains(cmt, c))
        who == IF found = <<>> THEN cs ELSE found
    IN  [name_approx |-> name, comment |-> cmt, climbers |-> cs, climb_info |-> None,
         climb_events |-> EventsFor(who), idx_entry_start |-> start]

(***************************************************************************)
(* get_climb_entries_from_climbing_day.                                    *)
(***************************************************************************)
Separators == {",", ".", ";", "!", ":", "-"}

\* a mutant of EndsEntry: separators end an entry in either state
EndsEntryAnyState(st, char, i, n, name) ==
    /\ (char \in Separators \/ i = n - 1)
    /\ ~(name # <<>> /\ name[Len(name)] = "5")

\* a mutant of EndsEntry: without the grade guard `not name_approx[-1] == "5"`
EndsEntryNoGradeGuard(st, char, i, n, name) ==
    st = "name" /\ (char \in Separators \/ i = n - 1)

\* the condition of the `if` at lines 151-155
EndsEntry(st, char, i, n, name) ==
    /\ st = "name"
    /\ (char \in Separators \/ i = n - 1)
    /\ ~(name # <<>> /\ name[Len(name)] = "5")

\* climbers = [climber for climber in ["TA", "AS"] if climber in place_and_climbers]
Climbers(place) == SelectSeq(ClimberVocabulary, LAMBDA c : Contains(place, c))

\* a mutant of StateAfter: ")" leaves the state as it is
StateKept(st, char) == st

\* `state` after the `if char == ")"` assignment (lines 147-148)
StateAfter(st, char) == IF char = ")" THEN "name" ELSE st

\* One iteration of the for loop (lines 143-171).
ScanChar ==
    /\ tok_pc = "scan"
    /\ idx < Len(comment)
    /\ LET char == comment[idx + 1]
           comment_len == Len(comment)
           st == StateAfter(state, char)
       IN  IF char = "("
           THEN /\ state' = "comment"
                /\ UNCHANGED <<climb_entries, name_approx, climb_comment, idx_entry_start>>
           ELSE IF char = ")" /\ idx # comment_len - 1
           THEN /\ state' = st
                /\ UNCHANGED <<climb_entries, name_approx, climb_comment, idx_entry_start>>
           ELSE IF EndsEntry(st, char, idx, comment_len, name_approx)
           THEN /\ climb_entries' = Append(climb_entries,
                        ClimbEntry(Strip(name_approx), Strip(climb_comment),
                                   Climbers(place_and_climbers), idx_entry_start))
                /\ name_approx' = <<>>
                /\ climb_comment' = <<>>
                /\ idx_entry_start' = idx + 1
                /\ state' = st
           ELSE /\ state' = st
                /\ name_approx' = IF st = "name" THEN Append(name_approx, char) ELSE name_approx
                /\ climb_comment' = IF st = "comment" THEN Append(climb_comment, char)
                                    ELSE climb_comment
                /\ UNCHANGED <<climb_entries, idx_entry_start>>
    /\ idx' = idx + 1
    /\ UNCHANGED <<comment, place_and_climbers, tok_pc>>
    /\ UNCHANGED <<entry_vars, match_vars>>
    /\ UNCHANGED <<ctor_args, new_climb_events, log_entries, force, climbing_days, row, climbing_day,
                   entry_idx, key, typed, proc_pc>>

\* `return climb_entries` once the loop is exhausted (line 173)
ReturnEntries ==
    /\ tok_pc = "scan"
    /\ idx = Len(comment)
    /\ tok_pc' = "done"
    /\ UNCHANGED <<comment, place_and_climbers, state, climb_entries, name_approx,
                   climb_comment, idx_entry_start, idx>>
    /\ UNCHANGED <<entry_vars, match_vars>>
    /\ UNCHANGED <<ctor_args, new_climb_events, log_entries, force, climbing_days, row, climbing_day,
                   entry_idx, key, typed, proc_pc>>

\* characters of the enumerated log texts
Alphabet == {"a", " ", "5", ",", ".", "(", ")"}

LogArmed ==
    <<"A", "r", "m", "e", "d", ",", " ", "O", "b", "i", " ", "(", "A", "S", ")", ",", " ",
      "J", "e", "d", "i", " ", "M", "i", "n", "d", " ", "T", "r", "i", "c", "k", "s", " ",
      "*", " ", "2", " ", "(", "T", "A", " ", "w", "o", "r", "k", "i", "n", "g", " ", "m",
      "o", "v", "e", "s", ")">>
LogKundalini ==
    <<"K", "u", "n", "d", "a", "l", "i", "n", "i", " ", "5", ".", "1", "2", "d", ",", " ",
      "n", "i", "c", "e", " ", "s", "e", "n", "d">>

LogCenterpiece ==
    <<"C", "e", "n", "t", "e", "r", "p", "i", "e", "c", "e", " ", "(", "A", "S", " ",
      "2", "x", "l", "e", "a", "d", " ", "2", "h", ",", " ", "T", "A", " ", "r", "e",
      "d", "p", "o", "i", "n", "t", ")", ",", " ", "S", "o", "c", "i", "a", "l", " ",
      "O">>

LogClimbName ==
    <<"C", "l", "i", "m", "b", " ", "N", "a", "m", "e", " ", "(",
     "A", "S", ")", " ", "2", "x", ",">>

LogTexts ==
    SeqsUpTo(Alphabet, MaxLen) \cup {LogArmed, LogKundalini, LogCenterpiece, LogClimbName}

PlaceTAAS == <<"R", "u", "m", "n", "e", "y", " ", "T", "A", " ", "A", "S">>
PlaceAS == <<"R", "u", "m", "n", "e", "y", " ", "A", "S">>
PlaceTA == <<"R", "u", "m", "n", "e", "y", " ", "T", "A">>
PlaceArt == <<"R", "u", "m", "n", "e", "y", " ", "w", "/", " ", "A", "r", "t">>
Places == {PlaceTAAS, PlaceAS, PlaceTA, PlaceArt}

EntryIdle == /\ climb_entry = None /\ last_call = None /\ ncalls = 0 /\ repeated = FALSE
MatchIdle ==
    /\ climbs_info = <<>> /\ fuzz = None /\ rows = <<>> /\ ranking = <<>>
    /\ matches = <<>> /\ match_pc = "idle"
\* nothing typed: every input() line empty
NoInput == [name |-> <<>>, grade |-> <<>>, update |-> <<>>, reps_hangs |-> <<>>]
ProcIdle ==
    /\ ctor_args = None /\ new_climb_events = None /\ log_entries = <<>> /\ force = FALSE
    /\ climbing_days = {} /\ row = 0 /\ climbing_day = None /\ entry_idx = 0
    /\ key = "" /\ typed = NoInput /\ proc_pc = "idle"
TokIdle ==
    /\ comment = <<>> /\ place_and_climbers = <<>> /\ state = "name"
    /\ climb_entries = <<>> /\ name_approx = <<>> /\ climb_comment = <<>>
    /\ idx_entry_start = 0 /\ idx = 0 /\ tok_pc = "idle"

\* the locals at lines 135-141, for each log text and participant context
TokInit ==
    /\ comment \in LogTexts
    /\ place_and_climbers \in Places
    /\ state = "name"
    /\ climb_entries = <<>>
    /\ name_approx = <<>>
    /\ climb_comment = <<>>
    /\ idx_entry_start = 0
    /\ idx = 0
    /\ tok_pc = "scan"
    /\ EntryIdle
    /\ MatchIdle
    /\ ProcIdle

TokNext == ScanChar \/ ReturnEntries

SpecTok == TokInit /\ [][TokNext]_vars

(***************************************************************************)
(* Claims about the tokenizer (checked under SpecTok).                     *)
(***************************************************************************)
NameArmed == <<"A", "r", "m", "e", "d">>
NameObi == <<"O", "b", "i">>
NameJedi ==
    <<"J", "e", "d", "i", " ", "M", "i", "n", "d", " ", "T", "r", "i", "c", "k", "s", " ",
      "*", " ", "2">>
CommentJedi ==
    <<"T", "A", " ", "w", "o", "r", "k", "i", "n", "g", " ", "m", "o", "v", "e", "s">>
NameKundaliniGrade ==
    <<"K", "u", "n", "d", "a", "l", "i", "n", "i", " ", "5", ".", "1", "2", "d">>

NameAndComment(e) == <<e.name_approx, e.comment>>

\* C1: tokenizing "Armed, Obi (AS), Jedi Mind Tricks * 2 (TA working moves)"
\* returns exactly three entries, in order (Armed, ""), (Obi, AS),
\* (Jedi Mind Tricks * 2, TA working moves).
C1_ArmedObiJedi ==
    (tok_pc = "done" /\ comment = LogArmed) =>
        /\ Len(climb_entries) = 3
        /\ NameAndComment(climb_entries[1]) = <<NameArmed, <<>> >>
        /\ NameAndComment(climb_entries[2]) = <<NameObi, AS>>
        /\ NameAndComment(climb_entries[3]) = <<NameJedi, CommentJedi>>

C1_Witness == tok_pc = "done" /\ comment = LogArmed /\ Len(climb_entries) = 3

\* a log text that is one run: non-empty, no separator and no parenthesis
SingleRun(s) ==
    s # <<>> /\ \A i \in 1..Len(s) : s[i] \notin Separators \cup {"(", ")"}

\* C2: for a log text that is a single run with no separator and no
\* parenthesis, the tokenizer returns exactly one entry whose name is the
\* whitespace-trimmed input (every character, the last one included) and
\* whose comment is empty.
C2_SingleRunKeepsWholeName ==
    (tok_pc = "done" /\ SingleRun(comment)) =>
        /\ Len(climb_entries) = 1
        /\ climb_entries[1].name_approx = Strip(comment)
        /\ climb_entries[1].comment = <<>>

\* C3: every non-empty input without separator characters, with or without
\* parentheticals, yields exactly one entry, whatever its last characters.
C3_NoSeparatorOneEntry ==
    (tok_pc = "done" /\ comment # <<>>
        /\ \A i \in 1..Len(comment) : comment[i] \notin Separators) =>
        Len(climb_entries) = 1

\* the scan is about to read a separator in NAME mode after a name ending in "5"
AtSeparatorAfterFive ==
    /\ tok_pc = "scan"
    /\ idx < Len(comment)
    /\ state = "name"
    /\ comment[idx + 1] \in Separators
    /\ name_approx # <<>>
    /\ name_approx[Len(name_approx)] = "5"

\* C4: a separator scanned in NAME mode while the accumulated name ends with
\* "5" does not terminate the entry and is kept in the name; tokenizing
\* "Kundalini 5.12d, nice send" gives a first entry named "Kundalini 5.12d".
C4_GradeNotSplit ==
    /\ [][AtSeparatorAfterFive =>
            /\ climb_entries' = climb_entries
            /\ name_approx' = Append(name_approx, comment[idx + 1])]_vars
    /\ []((tok_pc = "done" /\ comment = LogKundalini) =>
            /\ Len(climb_entries) >= 1
            /\ climb_entries[1].name_approx = NameKundaliniGrade)

C4_Witness ==
    /\ comment = LogKundalini
    /\ tok_pc = "scan"
    /\ climb_entries = <<>>
    /\ Len(name_approx) >= 2
    /\ name_approx[Len(name_approx) - 1] = "5"
    /\ name_approx[Len(name_approx)] = "."

(***************************************************************************)
(* ClimbEntry.replace_climb_events.                                        *)
(***************************************************************************)
ClimbInfo(name, grade, aliases) == [name |-> name, grade |-> grade, aliases |-> aliases]

\* a mutant of ReplaceClimbEvents: the comprehension's filter is dropped
ReplaceKeepsAll(self, climber, new_events) ==
    [self EXCEPT !.climb_events = self.climb_events \o new_events]

\* a mutant of ReplaceClimbEvents: the old list is dropped whole
ReplaceDropsOthers(self, climber, new_events) ==
    [self EXCEPT !.climb_events = new_events]

\* the entry after self.replace_climb_events(climber, new_events)
ReplaceClimbEvents(self, climber, new_events) ==
    [self EXCEPT !.climb_events =
        SelectSeq(self.climb_events, LAMBDA e : e.climber # climber) \o new_events]

EventSet == {ClimbEvent(c, h) : c \in {TA, AS}, h \in BOOLEAN}

\* a call entry.replace_climb_events(climber, new_events), any arguments
ReplaceCall ==
    /\ climb_entry # None
    /\ ncalls < MaxCalls
    /\ \E climber \in {TA, AS}, new_events \in SeqsUpTo(EventSet, MaxEvents) :
        /\ climb_entry' = ReplaceClimbEvents(climb_entry, climber, new_events)
        /\ last_call' = [climber |-> climber, climb_events |-> new_events]
        /\ repeated' = (last_call = last_call')
    /\ ncalls' = ncalls + 1
    /\ UNCHANGED <<tok_vars, match_vars, proc_vars>>

NameKundalini == <<"K", "u", "n", "d", "a", "l", "i", "n", "i">>
NameKunda == <<"K", "u", "n", "d", "a">>
Grade12d == <<"5", ".", "1", "2", "d">>

\* a ClimbEntry as constructed by the tokenizer, then given its climb_info by
\* process_climb_entry (line 204) or not yet
EntryInit ==
    /\ \E cmt \in {<<>>, CommentJedi}, cs \in {<<>>, <<AS>>, <<TA, AS>>},
          info \in {None, ClimbInfo(NameKundalini, Grade12d, <<NameKundalini, NameKunda>>)} :
        climb_entry = [ClimbEntry(NameKunda, cmt, cs, 0) EXCEPT !.climb_info = info]
    /\ last_call = None
    /\ ncalls = 0
    /\ repeated = FALSE
    /\ TokIdle
    /\ MatchIdle
    /\ ProcIdle

EntryNext == ReplaceCall

SpecReplace == EntryInit /\ [][EntryNext]_vars

\* the step is a call with the arguments of the call before it
RepeatsLastCall == ncalls >= 1 /\ ncalls' = ncalls + 1 /\ last_call' = last_call

\* every event of the list names the climber
AllOf(events, climber) == \A i \in 1..Len(events) : events[i].climber = climber

\* C5 as claimed: replace_climb_events is idempotent for every entry, every
\* climber and every new_events list, also a list naming another climber.
C5_IdempotentAnyEvents ==
    [][RepeatsLastCall => climb_entry'.climb_events = climb_entry.climb_events]_vars

\* C5 amended: calling replace_climb_events twice with the same arguments
\* leaves the event list of calling it once, for every entry and climber and
\* every new_events list whose events all name the climber argument.
C5_IdempotentOwnEvents ==
    [][(RepeatsLastCall /\ AllOf(last_call.climb_events, last_call.climber)) =>
            climb_entry'.climb_events = climb_entry.climb_events]_vars

C5_Witness ==
    /\ repeated
    /\ ncalls = 2
    /\ last_call.climb_events # <<>>
    /\ AllOf(last_call.climb_events, last_call.climber)
    /\ climb_entry.climb_events = <<ClimbEvent(TA, FALSE)>> \o last_call.climb_events

\* C6: after replace_climb_events(climber, new_events) the event list is the
\* previous events of the other climbers, in their order and with their hang
\* flags, followed by new_events; no earlier event of the climber remains;
\* name_approx, comment, climbers and climb_info are unchanged.
C6_ReplaceFrame ==
    [][ncalls' = ncalls + 1 =>
        LET old == climb_entry.climb_events
            new == climb_entry'.climb_events
            climber == last_call'.climber
            others == SelectSeq(old, LAMBDA e : e.climber # climber)
            n == Len(others)
        IN  /\ Len(new) = n + Len(last_call'.climb_events)
            /\ SubSeq(new, 1, n) = others
            /\ SubSeq(new, n + 1, Len(new)) = last_call'.climb_events
            /\ \A i \in 1..n : new[i].climber # climber
            /\ climb_entry'.name_approx = climb_entry.name_approx
            /\ climb_entry'.comment = climb_entry.comment
            /\ climb_entry'.climbers = climb_entry.climbers
            /\ climb_entry'.climb_info = climb_entry.climb_info
            /\ climb_entry'.idx_entry_start = climb_entry.idx_entry_start]_vars

\* one call has replaced the AS event of a freshly built [TA, AS] entry
C6_Witness ==
    /\ ncalls = 1
    /\ climb_entry # None
    /\ climb_entry.comment = <<>>
    /\ climb_entry.climbers = <<TA, AS>>
    /\ climb_entry.climb_info # None
    /\ last_call = [climber |-> AS, climb_events |-> <<ClimbEvent(AS, TRUE)>>]
    /\ climb_entry.climb_events = <<ClimbEvent(TA, FALSE), ClimbEvent(AS, TRUE)>>

(***************************************************************************)
(* get_matches.                                                            *)
(***************************************************************************)
\* the exact-equality score (line 268)
ExactMatch == 1000
\* the threshold of lines 275 and 278
Threshold == 60
\* the row cap of line 276
WeakGuesses == 4

\* a mutant of Score: an exact alias scores as the fuzzy ratio of equal strings
ScoreExactAsFuzzy(name, alias, fz) == IF name = alias THEN 100 ELSE fz[alias]

\* lines 267-270; fz[alias] is fuzz.partial_token_sort_ratio(name, alias)
Score(name, alias, fz) == IF name = alias THEN ExactMatch ELSE fz[alias]

\* the rows of one ClimbInfo: the inner loop, lines 266-272
RECURSIVE AliasRows(_, _, _, _)
AliasRows(name, climb_name, aliases, fz) ==
    IF aliases = <<>> THEN <<>>
    ELSE <<[match |-> Score(name, Head(aliases), fz), name |-> climb_name,
            alias |-> Head(aliases), alias_len |-> Len(Head(aliases))]>>
         \o AliasRows(name, climb_name, Tail(aliases), fz)

\* the outer loop over climbs_info.items(), lines 264-272
RECURSIVE BuildRows(_, _, _)
BuildRows(name, registry, fz) ==
    IF registry = <<>> THEN <<>>
    ELSE AliasRows(name, Head(registry).name, Head(registry).aliases, fz)
         \o BuildRows(name, Tail(registry), fz)

\* a mutant of KeyGE: the sort key is the score alone
KeyGEMatchOnly(a, b) == a.match >= b.match

\* (a.match, a.alias_len) >= (b.match, b.alias_len), the sort key of line 274
KeyGE(a, b) == a.match > b.match \/ (a.match = b.match /\ a.alias_len >= b.alias_len)

\* matches.sort(("match", "alias_len"), reverse=True): the orders of the row
\* indices S that a descending sort may produce; rows with equal keys come in
\* any order (the sort is not stable)
RECURSIVE SortedOrders(_, _)
SortedOrders(rs, S) ==
    IF S = {} THEN {<<>>}
    ELSE UNION {{<<i>> \o t : t \in SortedOrders(rs, S \ {i})} :
                i \in {j \in S : \A k \in S : KeyGE(rs[j], rs[k])}}

\* a mutant of Cut: the filter keeps the rows strictly above the threshold
CutStrict(table) ==
    IF table[1].match <= Threshold
    THEN SubSeq(table, 1, IF Len(table) < WeakGuesses THEN Len(table) ELSE WeakGuesses)
    ELSE SelectSeq(table, LAMBDA r : r.match > Threshold)

\* lines 275-278, for a table with at least one row
Cut(table) ==
    IF table[1].match <= Threshold
    THEN SubSeq(table, 1, IF Len(table) < WeakGuesses THEN Len(table) ELSE WeakGuesses)
    ELSE SelectSeq(table, LAMBDA r : r.match >= Threshold)

\* matches.add_column(np.arange(len(matches)), index=0, name="Select")
AddSelect(table) ==
    [i \in 1..Len(table) |->
        [Select |-> i - 1, match |-> table[i].match, name |-> table[i].name,
         alias |-> table[i].alias, alias_len |-> table[i].alias_len]]

\* get_matches(climb_entry, climbs_info): the whole call.  With no row at all,
\* matches["match"][0] raises IndexError and nothing is returned.
GetMatches ==
    /\ match_pc = "call"
    /\ LET rs == BuildRows(climb_entry.name_approx, climbs_info, fuzz)
       IN  /\ rows' = rs
           /\ \E order \in SortedOrders(rs, 1..Len(rs)) :
                LET table == [i \in 1..Len(rs) |-> rs[order[i]]]
                IN  /\ ranking' = table
                    /\ IF table = <<>>
                       THEN matches' = matches /\ match_pc' = "error"
                       ELSE matches' = AddSelect(Cut(table)) /\ match_pc' = "done"
    /\ UNCHANGED <<climbs_info, fuzz, entry_vars, tok_vars, proc_vars>>

NameArmedAndDangerous ==
    <<"A", "r", "m", "e", "d", " ", "&", " ", "D", "a", "n", "g", "e", "r", "o", "u", "s">>
NameWeevil == <<"W", "e", "e", "v", "i", "l">>
NameBigEasy == <<"B", "i", "g", " ", "E", "a", "s", "y">>
NameTinMan == <<"T", "i", "n", " ", "M", "a", "n">>
\* canonical names, in the order the registry was filled
ClimbNames == <<NameKundalini, NameArmedAndDangerous, NameWeevil, NameBigEasy, NameTinMan>>

\* the alias lists a ClimbInfo of the model may hold
AliasLists == {<<>>, <<NameKunda>>, <<NameKundalini, NameKunda>>, <<NameArmed>>}
AliasPool == {NameKundalini, NameKunda, NameArmed}
\* values of the fuzzy ratio (0..100): below, at and above the threshold
Ratios == {59, 60, 100}

\* registries of n climbs
RECURSIVE Registries(_)
Registries(n) ==
    IF n = 0 THEN {<<>>}
    ELSE {Append(r, ClimbInfo(ClimbNames[n], Grade12d, al)) :
            r \in Registries(n - 1), al \in AliasLists}

MatchInit ==
    /\ climbs_info \in UNION {Registries(n) : n \in 0..MaxClimbs}
    /\ fuzz \in [AliasPool -> Ratios]
    /\ \E name \in {NameKunda, NameKundalini, NameObi} :
        climb_entry = ClimbEntry(name, <<>>, <<TA, AS>>, 0)
    /\ last_call = None
    /\ ncalls = 0
    /\ repeated = FALSE
    /\ rows = <<>>
    /\ ranking = <<>>
    /\ matches = <<>>
    /\ match_pc = "call"
    /\ TokIdle
    /\ ProcIdle

MatchNext == GetMatches

SpecMatch == MatchInit /\ [][MatchNext]_vars

(***************************************************************************)
(* Claims about get_matches (checked under SpecMatch).                     *)
(***************************************************************************)
Returned == match_pc = "done"

\* C7: when name_approx equals some alias of the registry, the first returned
\* row carries the score 1000 of an exactly-equal alias and every row with
\* the exact score precedes every row with a fuzzy score (0..100); for the
\* registry {Kundalini: [Kundalini, Kunda]} and name_approx "Kunda" the top
\* row is (1000, Kundalini, Kunda).
C7_ExactOutranksFuzzy ==
    /\ ((match_pc # "call" /\ \E i \in 1..Len(rows) : rows[i].alias = climb_entry.name_approx)
            => /\ Returned
               /\ matches[1].match = 1000
               /\ matches[1].alias = climb_entry.name_approx
               /\ \A i, j \in 1..Len(matches) :
                    (matches[i].match = 1000 /\ matches[j].match <= 100) => i < j
               /\ \A i \in 1..Len(matches) :
                    (matches[i].match = 1000) <=> (matches[i].alias = climb_entry.name_approx))
    /\ ((match_pc # "call" /\ climb_entry.name_approx = NameKunda
            /\ climbs_info = <<ClimbInfo(NameKundalini, Grade12d, <<NameKundalini, NameKunda>>)>>)
            => /\ Returned
               /\ <<matches[1].match, matches[1].name, matches[1].alias>>
                    = <<1000, NameKundalini, NameKunda>>)

\* an exact alias shorter than a fuzzy alias scoring 100 still comes first
C7_Witness ==
    /\ Returned
    /\ climb_entry.name_approx = NameKunda
    /\ climbs_info = <<ClimbInfo(NameKundalini, Grade12d, <<NameKundalini, NameKunda>>)>>
    /\ fuzz[NameKundalini] = 100
    /\ Len(matches) = 2
    /\ matches[1].alias = NameKunda
    /\ matches[2].alias = NameKundalini

\* the number of rows of a table equal to row r (Select aside)
Copies(table, r) ==
    Cardinality({i \in 1..Len(table) :
        <<table[i].match, table[i].name, table[i].alias, table[i].alias_len>>
            = <<r.match, r.name, r.alias, r.alias_len>>})

\* C8: with a top score <= 60 the result is the first 4 rows of the ranking
\* (at most 4 rows); with a top score > 60 the result holds exactly the rows
\* with score >= 60, none omitted and none below 60 included.
C8_ThresholdPolicy ==
    Returned =>
        /\ ranking[1].match <= 60 =>
            /\ Len(matches) <= 4
            /\ Len(matches) = (IF Len(ranking) < 4 THEN Len(ranking) ELSE 4)
            /\ \A i \in 1..Len(matches) : Copies(<<ranking[i]>>, matches[i]) = 1
        /\ ranking[1].match > 60 =>
            /\ \A i \in 1..Len(matches) : matches[i].match >= 60
            /\ \A i \in 1..Len(rows) :
                rows[i].match >= 60 => Copies(matches, rows[i]) = Copies(rows, rows[i])
            /\ \A i \in 1..Len(matches) : Copies(rows, matches[i]) >= 1

\* a confident top row, a row at the threshold kept and a row below it left out
C8_Witness ==
    /\ Returned
    /\ ranking[1].match > 60
    /\ \E i \in 1..Len(matches) : matches[i].match = 60
    /\ \E i \in 1..Len(rows) : rows[i].match = 59
    /\ Len(matches) < Len(rows)

\* C9: the returned sequence is ordered highest score first and, among equal
\* scores, longer alias first: (score, alias_length) of each row is
\* lexicographically >= that of the next row.
C9_OrderedByScoreThenLength ==
    Returned =>
        \A i \in 1..(Len(matches) - 1) :
            \/ matches[i].match > matches[i + 1].match
            \/ /\ matches[i].match = matches[i + 1].match
               /\ matches[i].alias_len >= matches[i + 1].alias_len

\* two rows of equal score whose order the alias length decides
C9_Witness ==
    /\ Returned
    /\ \E i \in 1..(Len(matches) - 1) :
        /\ matches[i].match = matches[i + 1].match
        /\ matches[i].alias_len > matches[i + 1].alias_len
    /\ \E i \in 1..(Len(rows) - 1) :
        /\ rows[i].match = rows[i + 1].match
        /\ rows[i].alias_len < rows[i + 1].alias_len

\* C10: whenever the registry holds at least one ClimbInfo, also one whose
\* aliases list is empty, get_matches returns a non-empty sequence.
C10_NonEmptyForNonEmptyRegistry ==
    (match_pc # "call" /\ Len(climbs_info) >= 1) => (Returned /\ Len(matches) >= 1)

(***************************************************************************)
(* ClimbEntry(...) called on its own: any comment, any climbers list.      *)
(***************************************************************************)
\* characters of the enumerated comments
CommentAlphabet == {"T", "A", "S", " "}
CommentTexts == SeqsUpTo(CommentAlphabet, MaxLen) \cup {CommentJedi}

\* ClimbEntry(name_approx=..., comment=..., climbers=...): lines 91-103
Construct ==
    /\ ctor_args # None
    /\ climb_entry = None
    /\ climb_entry' = ClimbEntry(NameKunda, ctor_args.comment, ctor_args.climbers, 0)
    /\ UNCHANGED <<last_call, ncalls, repeated, tok_vars, match_vars, proc_vars>>

ConstructInit ==
    /\ ctor_args \in [comment : CommentTexts, climbers : SeqsUpTo({TA, AS}, MaxEvents)]
    /\ new_climb_events = None /\ log_entries = <<>> /\ force = FALSE
    /\ climbing_days = {} /\ row = 0 /\ climbing_day = None /\ entry_idx = 0
    /\ key = "" /\ typed = NoInput /\ proc_pc = "idle"
    /\ EntryIdle
    /\ TokIdle
    /\ MatchIdle

SpecConstruct == ConstructInit /\ [][Construct]_vars

\* entries built directly or by the tokenizer
SpecEntries == (ConstructInit \/ TokInit) /\ [][Construct \/ TokNext]_vars

\* s holds the characters a, b next to each other
HasPair(s, a, b) == \E i \in 1..(Len(s) - 1) : s[i] = a /\ s[i + 1] = b
NamesTA(s) == HasPair(s, "T", "A")
NamesAS(s) == HasPair(s, "A", "S")

Built == ctor_args # None /\ climb_entry # None

\* C12: a ClimbEntry built with no events from a comment in which TA or AS
\* occurs gets exactly one hang = false event per identifier found, TA before
\* AS, whatever the climbers list; a comment with both gives [TA, AS].
C12_EventsFromComment ==
    (Built /\ (NamesTA(ctor_args.comment) \/ NamesAS(ctor_args.comment))) =>
        climb_entry.climb_events =
            (IF NamesTA(ctor_args.comment) THEN <<ClimbEvent(TA, FALSE)>> ELSE <<>>)
            \o (IF NamesAS(ctor_args.comment) THEN <<ClimbEvent(AS, FALSE)>> ELSE <<>>)

\* AS before TA in the comment, other climbers supplied: the events are [TA, AS]
C12_Witness ==
    /\ Built
    /\ ctor_args.comment = <<"A", "S", "T", "A">>
    /\ ctor_args.climbers = <<AS, AS>>
    /\ climb_entry.climb_events = <<ClimbEvent(TA, FALSE), ClimbEvent(AS, FALSE)>>

\* one hang = false event per climber of the list, in its order
OnePerClimber(events, cs) ==
    /\ Len(events) = Len(cs)
    /\ \A i \in 1..Len(cs) : events[i] = [climber |-> cs[i], hang |-> FALSE]

\* the subset of [TA, AS] occurring in the participant context
ContextClimbers(place) ==
    (IF NamesTA(place) THEN <<TA>> ELSE <<>>) \o (IF NamesAS(place) THEN <<AS>> ELSE <<>>)

\* C13: a ClimbEntry whose comment holds neither TA nor AS gets one
\* hang = false event per element of the supplied climbers list, in that
\* order; for the tokenizer's entries that list is the subset of [TA, AS]
\* occurring in place_and_climbers, the same for every entry of the call;
\* construction does not modify the climbers list.
C13_EventsFromClimbers ==
    /\ []((Built /\ ~NamesTA(ctor_args.comment) /\ ~NamesAS(ctor_args.comment)) =>
            /\ OnePerClimber(climb_entry.climb_events, ctor_args.climbers)
            /\ climb_entry.climbers = ctor_args.climbers)
    /\ [](\A i \in 1..Len(climb_entries) :
            /\ climb_entries[i].climbers = ContextClimbers(place_and_climbers)
            /\ (~NamesTA(climb_entries[i].comment) /\ ~NamesAS(climb_entries[i].comment)) =>
                    OnePerClimber(climb_entries[i].climb_events,
                                  ContextClimbers(place_and_climbers)))
    /\ [][ctor_args' = ctor_args /\ place_and_climbers' = place_and_climbers]_vars

\* two entries of one tokenizer call, both with the context's climber AS
C13_Witness ==
    /\ tok_pc = "done"
    /\ place_and_climbers = PlaceAS
    /\ Len(climb_entries) = 2
    /\ \A i \in 1..2 : /\ climb_entries[i].comment = <<>>
                       /\ climb_entries[i].climb_events = <<ClimbEvent(AS, FALSE)>>

(***************************************************************************)
(* get_new_climb_events.                                                   *)
(***************************************************************************)
\* chr(1) and chr(20), the keys ctrl-a and ctrl-t
CtrlA == "^A"
CtrlT == "^T"
EventKeys == {"a", "t", "A", "T", CtrlA, CtrlT}

DecimalDigits == <<"0", "1", "2", "3", "4", "5", "6", "7", "8", "9">>
IsDigit(c) == \E d \in 1..10 : DecimalDigits[d] = c
\* int(c) for a one-character string holding a digit
IntOf(c) == (CHOOSE d \in 1..10 : DecimalDigits[d] = c) - 1

\* lines 291-295: int(reps_hangs[0]), and 0 when that raises
Reps(reps_hangs) ==
    IF reps_hangs # <<>> /\ IsDigit(reps_hangs[1]) THEN IntOf(reps_hangs[1]) ELSE 0

\* a mutant of Hangs: the pattern is read from index ii, not ii + 1
HangsFromCount(reps_hangs) ==
    IF Len(reps_hangs) >= Reps(reps_hangs)
    THEN [ii \in 1..Reps(reps_hangs) |-> reps_hangs[ii] = "h"]
    ELSE <<>>

\* lines 296-300: [reps_hangs[ii + 1] == "h" for ii in range(reps)], and []
\* when an index is out of range
Hangs(reps_hangs) ==
    IF Len(reps_hangs) >= Reps(reps_hangs) + 1
    THEN [ii \in 1..Reps(reps_hangs) |-> reps_hangs[ii + 1] = "h"]
    ELSE <<>>

\* get_new_climb_events(key), with reps_hangs the line input() returns for A, T
GetNewClimbEvents(k, reps_hangs) ==
    LET climber == IF k \in {"a", "A", CtrlA} THEN AS ELSE TA
        hangs == IF k \in {"A", "T"} THEN Hangs(reps_hangs)
                 ELSE IF k \in {"a", "t"} THEN <<TRUE>>
                 ELSE <<>>
    IN  [climber |-> climber,
         climb_events |-> [i \in 1..Len(hangs) |-> ClimbEvent(climber, hangs[i])]]

\* characters of the enumerated reps-and-hangs lines
PatternAlphabet == {"0", "1", "2", "3", "h", "c", "x"}
PatternNine == <<"9", "h", "c", "h", "c", "h", "c", "h", "c", "h">>
PatternTexts == SeqsUpTo(PatternAlphabet, MaxLen) \cup {PatternNine}

\* a call of get_new_climb_events(key)
CallGetNewClimbEvents ==
    /\ proc_pc = "get_new_climb_events"
    /\ new_climb_events' = GetNewClimbEvents(key, typed.reps_hangs)
    /\ proc_pc' = "got_new_climb_events"
    /\ UNCHANGED <<ctor_args, log_entries, force, climbing_days, row, climbing_day,
                   entry_idx, key, typed>>
    /\ UNCHANGED <<tok_vars, entry_vars, match_vars>>

EventsInit ==
    /\ key \in EventKeys
    /\ \E text \in PatternTexts :
        typed = IF key \in {"A", "T"} THEN [NoInput EXCEPT !.reps_hangs = text] ELSE NoInput
    /\ proc_pc = "get_new_climb_events"
    /\ ctor_args = None /\ new_climb_events = None /\ log_entries = <<>> /\ force = FALSE
    /\ climbing_days = {} /\ row = 0 /\ climbing_day = None /\ entry_idx = 0
    /\ TokIdle
    /\ EntryIdle
    /\ MatchIdle

SpecEvents == EventsInit /\ [][CallGetNewClimbEvents]_vars

\* the count a reps-and-hangs line starts with, when it starts with one
CountOf(text) ==
    CASE text[1] = "0" -> 0 [] text[1] = "1" -> 1 [] text[1] = "2" -> 2
      [] text[1] = "3" -> 3 [] text[1] = "4" -> 4 [] text[1] = "5" -> 5
      [] text[1] = "6" -> 6 [] text[1] = "7" -> 7 [] text[1] = "8" -> 8
      [] text[1] = "9" -> 9
StartsWithCount(text) ==
    text # <<>> /\ text[1] \in {"0", "1", "2", "3", "4", "5", "6", "7", "8", "9"}

\* C16: for the keys A and T, an empty line, a non-numeric first character or
\* a pattern shorter than the count gives an empty event list (nothing is
\* raised); a count n followed by at least n pattern characters gives exactly
\* n events of that climber, event i with hang iff pattern character i is h.
C16_RepsAndHangs ==
    (proc_pc = "got_new_climb_events" /\ key \in {"A", "T"}) =>
        LET text == typed.reps_hangs
            events == new_climb_events.climb_events
        IN  /\ new_climb_events.climber = (IF key = "A" THEN AS ELSE TA)
            /\ ~StartsWithCount(text) => events = <<>>
            /\ (StartsWithCount(text) /\ Len(text) - 1 < CountOf(text)) => events = <<>>
            /\ (StartsWithCount(text) /\ Len(text) - 1 >= CountOf(text)) =>
                /\ Len(events) = CountOf(text)
                /\ \A i \in 1..CountOf(text) :
                    /\ events[i].climber = new_climb_events.climber
                    /\ events[i].hang = (text[i + 1] = "h")

\* "2hc" typed after A: a hang, then a clean repetition, both of AS
C16_Witness ==
    /\ proc_pc = "got_new_climb_events"
    /\ key = "A"
    /\ typed.reps_hangs = <<"2", "h", "c">>
    /\ new_climb_events =
        [climber |-> AS, climb_events |-> <<ClimbEvent(AS, TRUE), ClimbEvent(AS, FALSE)>>]

(***************************************************************************)
(* More claims about the tokenizer (checked under SpecTok).                *)
(***************************************************************************)
NameCenterpiece == <<"C", "e", "n", "t", "e", "r", "p", "i", "e", "c", "e">>
CommentCenterpiece ==
    <<"A", "S", " ", "2", "x", "l", "e", "a", "d", " ", "2", "h", ",", " ", "T", "A",
      " ", "r", "e", "d", "p", "o", "i", "n", "t">>

\* the scan is about to read, in COMMENT mode, a character other than ")"
InsideParenthetical ==
    /\ tok_pc = "scan"
    /\ idx < Len(comment)
    /\ state = "comment"
    /\ comment[idx + 1] # ")"

\* C20: in COMMENT mode, after "(" and before the matching ")", no character
\* terminates an entry, and a separator is appended to the comment
\* accumulator; "Centerpiece (AS 2xlead 2h, TA redpoint), Social O" gives one
\* entry for Centerpiece with the comment "AS 2xlead 2h, TA redpoint".
C20_NoSplitInsideComment ==
    /\ [][InsideParenthetical =>
            /\ climb_entries' = climb_entries
            /\ name_approx' = name_approx
            /\ state' = "comment"
            /\ comment[idx + 1] \in Separators =>
                    climb_comment' = Append(climb_comment, comment[idx + 1])]_vars
    /\ []((tok_pc = "done" /\ comment = LogCenterpiece) =>
            /\ Len(climb_entries) >= 1
            /\ climb_entries[1].name_approx = NameCenterpiece
            /\ climb_entries[1].comment = CommentCenterpiece
            /\ \A i \in 2..Len(climb_entries) :
                    ~Contains(climb_entries[i].name_approx, NameCenterpiece))

\* the comma inside the parenthetical has been kept in the comment accumulator
C20_Witness ==
    /\ comment = LogCenterpiece
    /\ tok_pc = "scan"
    /\ state = "comment"
    /\ climb_entries = <<>>
    /\ climb_comment # <<>>
    /\ climb_comment[Len(climb_comment)] = ","

(***************************************************************************)
(* process_log_entries and process_climb_entry.  The two stores are        *)
(* shelves: climbs_info is kept as the sequence of its records in          *)
(* insertion order, climbing_days as the set of its ClimbingDay records    *)
(* (one per date).                                                         *)
(***************************************************************************)
\* at most this many rows in a log sheet
MaxRows == 2

ClimbingDay(date, log_text, place, entries) ==
    [date |-> date, log_text |-> log_text, place_and_climbers |-> place,
     climb_entries |-> entries]

\* a mutant of InRegistry: every name is taken for a new one
NotInRegistry(registry, name) == FALSE

\* `name in climbs_info`
InRegistry(registry, name) == \E i \in 1..Len(registry) : registry[i].name = name

\* climbs_info[name]
Lookup(registry, name) ==
    registry[CHOOSE i \in 1..Len(registry) : registry[i].name = name]

\* climbs_info[name] = climb_info
Put(registry, climb_info) ==
    IF \E i \in 1..Len(registry) : registry[i].name = climb_info.name
    THEN [i \in 1..Len(registry) |->
            IF registry[i].name = climb_info.name THEN climb_info ELSE registry[i]]
    ELSE Append(registry, climb_info)

\* `date in climbing_days`
HasDay(days, date) == \E d \in days : d.date = date

\* climbing_days[date]
DayOf(days, date) == CHOOSE d \in days : d.date = date

\* a mutant of Skips: the date test is dropped
SkipsNever(days, date, forced) == FALSE

\* the test at line 330
Skips(days, date, forced) == HasDay(days, date) /\ ~forced

\* a mutant of DayWithEntries: line 346 is dropped
DayWithoutEntries(day, entries) == day

\* climbing_day after line 346
DayWithEntries(day, entries) == [day EXCEPT !.climb_entries = entries]

\* the row the for loop of line 325 takes next
LogEntry == log_entries[row + 1]

\* the locals of process_climb_entry and of get_matches, untouched
EntryLocalsUnchanged == UNCHANGED <<entry_vars, match_vars, new_climb_events, key, typed, entry_idx>>

\* lines 330-331: the row's date is stored and force is off
SkipRow ==
    /\ proc_pc = "for_row"
    /\ row < Len(log_entries)
    /\ Skips(climbing_days, LogEntry.Date, force)
    /\ row' = row + 1
    /\ UNCHANGED <<tok_vars, ctor_args, log_entries, force, climbing_days, climbing_day, proc_pc>>
    /\ EntryLocalsUnchanged

\* lines 326-339: a new ClimbingDay, and the tokenizer is entered
StartRow ==
    /\ proc_pc = "for_row"
    /\ row < Len(log_entries)
    /\ ~Skips(climbing_days, LogEntry.Date, force)
    /\ row' = row + 1
    /\ climbing_day' = ClimbingDay(LogEntry.Date, LogEntry.Comments, LogEntry.Climb, <<>>)
    /\ comment' = LogEntry.Comments
    /\ place_and_climbers' = LogEntry.Climb
    /\ state' = "name"
    /\ climb_entries' = <<>>
    /\ name_approx' = <<>>
    /\ climb_comment' = <<>>
    /\ idx_entry_start' = 0
    /\ idx' = 0
    /\ tok_pc' = "scan"
    /\ proc_pc' = "tokenize"
    /\ UNCHANGED <<ctor_args, log_entries, force, climbing_days>>
    /\ EntryLocalsUnchanged

\* line 337: the tokenizer has returned climb_entries
Tokenized ==
    /\ proc_pc = "tokenize"
    /\ tok_pc = "done"
    /\ entry_idx' = 0
    /\ proc_pc' = "for_entry"
    /\ UNCHANGED <<tok_vars, entry_vars, match_vars, ctor_args, new_climb_events, log_entries,
                   force, climbing_days, row, climbing_day, key, typed>>

\* lines 346-349: every entry is processed; the day is stored under its date
WriteDay ==
    /\ proc_pc = "for_entry"
    /\ entry_idx = Len(climb_entries)
    /\ climbing_day' = DayWithEntries(climbing_day, climb_entries)
    /\ climbing_days' =
            {d \in climbing_days : d.date # climbing_day.date} \cup {climbing_day'}
    /\ proc_pc' = "for_row"
    /\ UNCHANGED <<tok_vars, ctor_args, log_entries, force, row>>
    /\ EntryLocalsUnchanged

\* the for loop of line 325 is exhausted
Return ==
    /\ proc_pc = "for_row"
    /\ row = Len(log_entries)
    /\ proc_pc' = "returned"
    /\ UNCHANGED <<tok_vars, ctor_args, log_entries, force, climbing_days, row, climbing_day>>
    /\ EntryLocalsUnchanged

\* what the operator may type at the prompts of process_climb_entry
TypedNames == {NameKundalini, NameArmed}
Grade9 == <<"5", ".", "9">>
TypedGrades == {Grade12d, Grade9}
TypedUpdates == {<<"y">>, <<"n">>}
TypedPatterns == {<<"1", "c">>, <<"x">>}
RankKeys == {"0", "1", "7"}
OtherKeys == {"x"}

\* a mutant of Confirmed: any answer confirms
ConfirmedAlways(update) == TRUE

\* the test at line 250
Confirmed(update) == update = <<"y">>

\* the entry after lines 253-254
Cleared(entry) == [entry EXCEPT !.climb_info = None, !.climb_events = <<>>]

\* climb_entry is the element of climb_entries at hand: an assignment to one
\* of its attributes shows in the list
SetEntry(entry) ==
    /\ climb_entry' = entry
    /\ climb_entries' = [climb_entries EXCEPT ![entry_idx] = entry]

\* what a keystroke of the while loop leaves alone
KeyFrame ==
    /\ UNCHANGED <<comment, place_and_climbers, state, name_approx, climb_comment,
                   idx_entry_start, idx, tok_pc>>
    /\ UNCHANGED <<last_call, ncalls, repeated, fuzz, rows, ranking, matches, match_pc>>
    /\ UNCHANGED <<ctor_args, log_entries, force, climbing_days, row, climbing_day, entry_idx>>

\* line 342: process_climb_entry is called with the next entry, and calls
\* get_matches (line 201)
CallProcess ==
    /\ proc_pc = "for_entry"
    /\ entry_idx < Len(climb_entries)
    /\ entry_idx' = entry_idx + 1
    /\ climb_entry' = climb_entries[entry_idx + 1]
    /\ rows' = <<>>
    /\ ranking' = <<>>
    /\ matches' = <<>>
    /\ match_pc' = "call"
    /\ key' = ""
    /\ typed' = NoInput
    /\ new_climb_events' = None
    /\ proc_pc' = "get_matches"
    /\ UNCHANGED <<tok_vars, last_call, ncalls, repeated, climbs_info, fuzz>>
    /\ UNCHANGED <<ctor_args, log_entries, force, climbing_days, row, climbing_day>>

\* a mutant of DefaultClimb: the test of line 203 is dropped
DefaultClimbAlways ==
    /\ proc_pc = "get_matches"
    /\ match_pc = "done"
    /\ SetEntry([climb_entry EXCEPT !.climb_info = Lookup(climbs_info, matches[1].name)])
    /\ proc_pc' = "key"
    /\ KeyFrame
    /\ UNCHANGED <<climbs_info, key, typed, new_climb_events>>

\* lines 203-204: an entry without climb_info gets the top-ranked climb
DefaultClimb ==
    /\ proc_pc = "get_matches"
    /\ match_pc = "done"
    /\ IF climb_entry.climb_info = None
       THEN SetEntry([climb_entry EXCEPT
                        !.climb_info = Lookup(climbs_info, matches[1].name)])
       ELSE UNCHANGED <<climb_entry, climb_entries>>
    /\ proc_pc' = "key"
    /\ KeyFrame
    /\ UNCHANGED <<climbs_info, key, typed, new_climb_events>>

\* lines 225-226 and 256, then 343-344: " " or "q" ends the while loop and
\* the key is returned; "q" makes process_log_entries return
KeyDone ==
    /\ proc_pc = "key"
    /\ \E k \in {" ", "q"} :
        /\ key' = k
        /\ proc_pc' = IF k = "q" THEN "quit" ELSE "for_entry"
    /\ typed' = NoInput
    /\ KeyFrame
    /\ UNCHANGED <<climb_entry, climb_entries, climbs_info, new_climb_events>>

\* lines 227-229: the events of one climber are replaced
KeyEvents ==
    /\ proc_pc = "key"
    /\ \E k \in EventKeys, text \in TypedPatterns :
        /\ key' = k
        /\ typed' = IF k \in {"A", "T"} THEN [NoInput EXCEPT !.reps_hangs = text]
                    ELSE NoInput
        /\ new_climb_events' = GetNewClimbEvents(k, typed'.reps_hangs)
        /\ SetEntry(ReplaceClimbEvents(climb_entry, new_climb_events'.climber,
                                       new_climb_events'.climb_events))
    /\ KeyFrame
    /\ UNCHANGED <<climbs_info, proc_pc>>

\* lines 230-233: a digit selects a row of the ranking, if there is one
KeyRank ==
    /\ proc_pc = "key"
    /\ \E k \in RankKeys :
        /\ key' = k
        /\ IF IntOf(k) < Len(matches)
           THEN SetEntry([climb_entry EXCEPT
                            !.climb_info = Lookup(climbs_info, matches[IntOf(k) + 1].name)])
           ELSE UNCHANGED <<climb_entry, climb_entries>>
    /\ typed' = NoInput
    /\ KeyFrame
    /\ UNCHANGED <<climbs_info, proc_pc, new_climb_events>>

\* lines 234-252: a climb is named; an unknown one gets a new ClimbInfo,
\* stored in the registry on confirmation
KeyClimb ==
    /\ proc_pc = "key"
    /\ key' = "c"
    /\ \E name \in TypedNames :
        IF InRegistry(climbs_info, name)
        THEN /\ typed' = [NoInput EXCEPT !.name = name]
             /\ SetEntry([climb_entry EXCEPT !.climb_info = Lookup(climbs_info, name)])
             /\ UNCHANGED climbs_info
        ELSE \E grade \in TypedGrades, update \in TypedUpdates :
                LET climb_info == ClimbInfo(name, grade, <<name>>)
                IN  /\ typed' = [NoInput EXCEPT !.name = name, !.grade = grade,
                                                !.update = update]
                    /\ climbs_info' = IF Confirmed(update) THEN Put(climbs_info, climb_info)
                                      ELSE climbs_info
                    /\ SetEntry([climb_entry EXCEPT !.climb_info = climb_info])
    /\ KeyFrame
    /\ UNCHANGED <<proc_pc, new_climb_events>>

\* lines 253-255: not a climb
KeyNotClimb ==
    /\ proc_pc = "key"
    /\ key' = "n"
    /\ typed' = NoInput
    /\ SetEntry(Cleared(climb_entry))
    /\ KeyFrame
    /\ UNCHANGED <<climbs_info, proc_pc, new_climb_events>>

\* any other key: the while loop goes round
KeyOther ==
    /\ proc_pc = "key"
    /\ \E k \in OtherKeys : key' = k
    /\ typed' = NoInput
    /\ KeyFrame
    /\ UNCHANGED <<climb_entry, climb_entries, climbs_info, proc_pc, new_climb_events>>

\* the registry records of the runs below
InfoKundalini == ClimbInfo(NameKundalini, Grade12d, <<NameKundalini, NameKunda>>)
InfoArmedAndDangerous == ClimbInfo(NameArmedAndDangerous, Grade9, <<NameArmed>>)

\* the aliases of a registry
AliasesOf(registry) ==
    UNION {{registry[i].aliases[j] : j \in 1..Len(registry[i].aliases)} :
            i \in 1..Len(registry)}

\* the fuzzy ratios of one name_approx against the aliases of a registry (the
\* ratio of an alias that is not looked up is immaterial)
RatiosFor(registry) ==
    {f \in [AliasPool -> Ratios] :
        \A a \in AliasPool \ AliasesOf(registry) : f[a] = 59}

Date1 == "2023-05-01"
Date2 == "2023-05-02"
LogKundaText == <<"K", "u", "n", "d", "a", ",">>
LogObiText == <<"O", "b", "i", ",">>

\* the state on entry to process_log_entries
LogCall ==
    /\ row = 0
    /\ climbing_day = None
    /\ entry_idx = 0
    /\ key = ""
    /\ typed = NoInput
    /\ new_climb_events = None
    /\ ctor_args = None
    /\ proc_pc = "for_row"
    /\ rows = <<>> /\ ranking = <<>> /\ matches = <<>> /\ match_pc = "idle"
    /\ EntryIdle
    /\ TokIdle

\* process_log_entries on a sheet of one row with one entry, an empty day
\* store, and any of three registries
ProcInit ==
    /\ \E text \in {LogKundaText, LogObiText} :
        log_entries = <<[Date |-> Date1, Comments |-> text, Climb |-> PlaceTA]>>
    /\ force = FALSE
    /\ climbing_days = {}
    /\ climbs_info \in {<<>>, <<InfoKundalini>>, <<InfoKundalini, InfoArmedAndDangerous>>}
    /\ fuzz \in RatiosFor(climbs_info)
    /\ LogCall

ProcNext ==
    \/ StartRow \/ ScanChar \/ ReturnEntries \/ Tokenized
    \/ CallProcess \/ GetMatches \/ DefaultClimb
    \/ KeyDone \/ KeyEvents \/ KeyRank \/ KeyClimb \/ KeyNotClimb \/ KeyOther
    \/ WriteDay \/ Return

SpecProc == ProcInit /\ [][ProcNext]_vars

\* a day stored by an earlier run
OldDay == ClimbingDay(Date1, <<>>, PlaceAS, <<>>)
SheetTexts == {<<>>, <<"a", ",">>, <<"a", ",", "a", ",">>}
SheetRows == [Date : {Date1, Date2}, Comments : SheetTexts, Climb : {PlaceTA}]

\* process_log_entries on sheets of up to MaxRows rows, with or without
\* force, on an empty day store or one that holds a day of an earlier run;
\* the operator finishes, quits or declares "not a climb"
LogInit ==
    /\ log_entries \in SeqsUpTo(SheetRows, MaxRows)
    /\ force \in BOOLEAN
    /\ climbing_days \in {{}, {OldDay}}
    /\ climbs_info = <<InfoKundalini>>
    /\ fuzz \in RatiosFor(climbs_info)
    /\ LogCall

LogNext ==
    \/ SkipRow \/ StartRow \/ ScanChar \/ ReturnEntries \/ Tokenized
    \/ CallProcess \/ GetMatches \/ DefaultClimb
    \/ KeyDone \/ KeyNotClimb
    \/ WriteDay \/ Return

SpecLog == LogInit /\ [][LogNext]_vars

(***************************************************************************)
(* Claims about process_climb_entry (checked under SpecProc).              *)
(***************************************************************************)
\* C11: with an empty registry, get_matches and the step of
\* process_climb_entry that uses it reach no error state: the ranking returns
\* an empty match list and the operator is asked for a key.
C11_EmptyRegistryNoError ==
    (climbs_info = <<>> /\ proc_pc = "get_matches" /\ match_pc # "call") =>
        (match_pc = "done" /\ matches = <<>>)

\* a keystroke of the while loop (lines 223-254)
Keystroke == proc_pc = "key"

\* every record of the registry is still there, as it was
RecordsKept ==
    /\ Len(climbs_info') >= Len(climbs_info)
    /\ \A i \in 1..Len(climbs_info) : climbs_info'[i] = climbs_info[i]

\* C14: in process_climb_entry the registry changes only by the key "c" with a
\* name not yet in the registry and the answer "y", which adds
\* ClimbInfo(name, grade, aliases=[name]) and nothing else; that key, name and
\* answer always add it; every other decision leaves the registry unchanged.
C14_RegistryGrowsOnConfirmation ==
    /\ [][climbs_info' # climbs_info =>
            /\ Keystroke
            /\ key' = "c"
            /\ ~InRegistry(climbs_info, typed'.name)
            /\ typed'.update = <<"y">>
            /\ Len(climbs_info') = Len(climbs_info) + 1
            /\ RecordsKept
            /\ climbs_info'[Len(climbs_info')] =
                    [name |-> typed'.name, grade |-> typed'.grade,
                     aliases |-> <<typed'.name>>]]_vars
    /\ [][(Keystroke /\ key' = "c" /\ typed'.update = <<"y">>) =>
            /\ InRegistry(climbs_info', typed'.name)
            /\ Lookup(climbs_info', typed'.name).grade = typed'.grade]_vars

\* "Armed" has been added on confirmation to a registry of one climb
C14_Witness ==
    /\ key = "c"
    /\ typed.update = <<"y">>
    /\ typed.name = NameArmed
    /\ climbs_info = <<InfoKundalini, ClimbInfo(NameArmed, typed.grade, <<NameArmed>>)>>

\* C15: no decision in process_climb_entry overwrites or removes a record of
\* the registry; the key "c" with a name the registry holds asks for no grade
\* and no confirmation, sets the entry's climb_info to the registry's record
\* and leaves the registry as it is.
C15_ExistingRecordKept ==
    /\ [][RecordsKept]_vars
    /\ [][(Keystroke /\ key' = "c"
            /\ \E i \in 1..Len(climbs_info) : climbs_info[i].name = typed'.name) =>
            /\ climbs_info' = climbs_info
            /\ typed'.grade = <<>>
            /\ typed'.update = <<>>
            /\ \E i \in 1..Len(climbs_info) :
                /\ climbs_info[i].name = typed'.name
                /\ climb_entry'.climb_info = climbs_info[i]]_vars

\* "Kundalini" was typed as a new climb after another climb had been chosen:
\* the entry has the registry's record, with its grade and both aliases
C15_Witness ==
    /\ proc_pc = "key"
    /\ key = "c"
    /\ typed.name = NameKundalini
    /\ climb_entry.climb_info = InfoKundalini
    /\ climbs_info = <<InfoKundalini, InfoArmedAndDangerous>>
    /\ climb_entry.name_approx = NameObi

\* process_climb_entry has returned its key
Left == proc_pc \in {"for_entry", "for_row", "returned", "quit"} /\ key \in {" ", "q"}

\* C19: an entry that leaves process_climb_entry with climb_info unset has no
\* events, whatever keys followed "not a climb".
C19_UnsetInfoNoEvents ==
    (Left /\ climb_entry.climb_info = None) => climb_entry.climb_events = <<>>

(***************************************************************************)
(* Claims about process_log_entries (checked under SpecLog).               *)
(***************************************************************************)
\* the for loop of line 325 is at a row whose date the day store holds
AtStoredDate ==
    /\ proc_pc = "for_row"
    /\ row < Len(log_entries)
    /\ \E d \in climbing_days : d.date = log_entries[row + 1].Date

\* C17: with force = false a row whose date is in the day store is skipped:
\* nothing is tokenized, no entry is presented and no stored day changes, in
\* that step or in any other of the run; with force = true such a row is
\* tokenized, and when its entries are done the day stored under its date is
\* the new one.
C17_SkipUnlessForce ==
    /\ [][(AtStoredDate /\ ~force) =>
            /\ row' = row + 1
            /\ proc_pc' = "for_row"
            /\ UNCHANGED <<tok_vars, entry_vars, match_vars, climbing_days, climbing_day,
                           entry_idx, key, typed>>]_vars
    /\ [][~force => \A d \in climbing_days : d \in climbing_days']_vars
    /\ [][(AtStoredDate /\ force) =>
            /\ proc_pc' = "tokenize"
            /\ tok_pc' = "scan"
            /\ comment' = log_entries[row + 1].Comments
            /\ climbing_days' = climbing_days]_vars
    /\ [][(proc_pc = "for_entry" /\ proc_pc' = "for_row") =>
            \A d \in climbing_days' :
                d.date = log_entries[row].Date =>
                    /\ d.log_text = log_entries[row].Comments
                    /\ d.place_and_climbers = log_entries[row].Climb
                    /\ d.climb_entries = climb_entries]_vars

\* the second row has the date of the first and another text; it was
\* skipped, and the store holds the day of the first row
C17_Witness ==
    /\ ~force
    /\ Len(log_entries) = 2
    /\ row = 2
    /\ proc_pc = "for_row"
    /\ log_entries[1].Date = Date2
    /\ log_entries[2].Date = Date2
    /\ Len(log_entries[1].Comments) = 2
    /\ Len(log_entries[2].Comments) = 4
    /\ \E d \in climbing_days : d.date = Date2 /\ d.log_text = log_entries[1].Comments

\* ascending start index: the order in which the tokenizer emits entries
InTokenizerOrder(entries) ==
    \A i \in 1..(Len(entries) - 1) :
        entries[i].idx_entry_start < entries[i + 1].idx_entry_start

\* C18: the day store changes only when process_climb_entry has returned,
\* with a key other than "q", for every entry of the day at hand; the day
\* then stored holds all these entries in tokenizer order and every day of
\* another date stays as it was.  The key "q" leaves the day store as it is
\* and ends the run: no step follows, so the day at hand is never written
\* and no later row is processed.
C18_DayWrittenAfterAllEntries ==
    /\ [][climbing_days' # climbing_days =>
            /\ proc_pc = "for_entry"
            /\ entry_idx = Len(climb_entries)
            /\ key # "q"
            /\ (climb_entries # <<>> => key = " ")
            /\ InTokenizerOrder(climb_entries)
            /\ \E d \in climbing_days' :
                /\ d.date = climbing_day.date
                /\ d.log_text = comment
                /\ d.climb_entries = climb_entries
            /\ \A d \in climbing_days : d.date # climbing_day.date => d \in climbing_days'
            /\ \A d \in climbing_days' : d.date # climbing_day.date => d \in climbing_days]_vars
    /\ [][(Keystroke /\ key' = "q") =>
            /\ proc_pc' = "quit"
            /\ climbing_days' = climbing_days]_vars
    /\ [][proc_pc # "quit"]_vars

\* the first day was written with its two entries; "q" at the second row's
\* entry ended the run, and the second day is not in the store
C18_Witness ==
    /\ proc_pc = "quit"
    /\ row = 2
    /\ log_entries[2].Date # log_entries[1].Date
    /\ ~HasDay(climbing_days, log_entries[2].Date)
    /\ \E d \in climbing_days :
        /\ d.date = log_entries[1].Date
        /\ Len(d.climb_entries) = 2
        /\ d.climb_entries[1].climb_info = None
        /\ d.climb_entries[2].climb_info = InfoKundalini

(***************************************************************************)
(* The closing parenthesis (checked under SpecTok).                        *)
(***************************************************************************)
NameClimbName == <<"C", "l", "i", "m", "b", " ", "N", "a", "m", "e">>
NameTwice == <<"2", "x">>

\* the scan is about to read a ")" that is not the last character
AtInnerClose ==
    /\ tok_pc = "scan"
    /\ idx < Len(comment) - 1
    /\ comment[idx + 1] = ")"

\* the scan is about to read, in NAME mode and before the last character, a
\* character that is neither a parenthesis nor a separator
AtNameText ==
    /\ tok_pc = "scan"
    /\ idx < Len(comment) - 1
    /\ state = "name"
    /\ comment[idx + 1] \notin Separators \cup {"(", ")"}

\* C21: a ")" that is not the last character puts the tokenizer in NAME mode,
\* emits no entry and is appended neither to the name nor to the comment;
\* the text that follows in NAME mode is appended to the name of the entry
\* under way, whose comment accumulator keeps what the parenthetical gave;
\* "Climb Name (AS) 2x," gives a single entry with the comment "AS" and a
\* name that contains "Climb Name" and "2x".
C21_CloseReturnsToName ==
    /\ [][AtInnerClose =>
            /\ state' = "name"
            /\ climb_entries' = climb_entries
            /\ name_approx' = name_approx
            /\ climb_comment' = climb_comment
            /\ idx_entry_start' = idx_entry_start]_vars
    /\ [][AtNameText =>
            /\ name_approx' = Append(name_approx, comment[idx + 1])
            /\ climb_comment' = climb_comment
            /\ climb_entries' = climb_entries]_vars
    /\ []((tok_pc = "done" /\ comment = LogClimbName) =>
            /\ Len(climb_entries) = 1
            /\ climb_entries[1].comment = AS
            /\ Contains(climb_entries[1].name_approx, NameClimbName)
            /\ Contains(climb_entries[1].name_approx, NameTwice)
            /\ ~Contains(climb_entries[1].name_approx, <<")">>))

\* "2x" has been appended to the name after the ")" of "(AS)"; the comment
\* accumulator still holds AS and nothing has been emitted
C21_Witness ==
    /\ comment = LogClimbName
    /\ tok_pc = "scan"
    /\ state = "name"
    /\ climb_entries = <<>>
    /\ climb_comment = AS
    /\ Contains(name_approx, NameClimbName)
    /\ Contains(name_approx, NameTwice)

(***************************************************************************)
(* process_climb_entry called on its own, on an entry that has its         *)
(* climb_info already (an entry of a day processed before) or not yet.     *)
(***************************************************************************)
\* the records of a registry, and None
InfoChoices(registry) == {None} \cup {registry[i] : i \in 1..Len(registry)}

\* the state at line 201: the day and its one entry are built, get_matches is
\* being called
EntryCallInit ==
    /\ climbs_info \in {<<InfoKundalini>>, <<InfoKundalini, InfoArmedAndDangerous>>}
    /\ fuzz \in RatiosFor(climbs_info)
    /\ \E name \in {NameKunda, NameObi}, info \in InfoChoices(climbs_info) :
        climb_entry = [ClimbEntry(name, <<>>, <<TA>>, 0) EXCEPT !.climb_info = info]
    /\ climb_entries = <<climb_entry>>
    /\ entry_idx = 1
    /\ climbing_day = ClimbingDay(Date1, Append(climb_entry.name_approx, ","), PlaceTA, <<>>)
    /\ comment = climbing_day.log_text
    /\ place_and_climbers = PlaceTA
    /\ state = "name" /\ name_approx = <<>> /\ climb_comment = <<>>
    /\ idx_entry_start = Len(comment) /\ idx = Len(comment) /\ tok_pc = "done"
    /\ last_call = None /\ ncalls = 0 /\ repeated = FALSE
    /\ rows = <<>> /\ ranking = <<>> /\ matches = <<>> /\ match_pc = "call"
    /\ log_entries = <<>> /\ force = FALSE /\ climbing_days = {} /\ row = 0
    /\ key = "" /\ typed = NoInput /\ new_climb_events = None /\ ctor_args = None
    /\ proc_pc = "get_matches"

\* the call and its while loop; the key returned by " " or "q" ends it
EntryCallNext ==
    \/ GetMatches \/ DefaultClimb
    \/ KeyDone \/ KeyEvents \/ KeyRank \/ KeyClimb \/ KeyNotClimb \/ KeyOther

SpecEntryCall == EntryCallInit /\ [][EntryCallNext]_vars

(***************************************************************************)
(* Claims about the call of process_climb_entry (checked under             *)
(* SpecEntryCall).                                                         *)
(***************************************************************************)
\* get_matches has returned and lines 203-204 come next
AfterRanking == proc_pc = "get_matches" /\ match_pc = "done"

\* the registry record named by row i (0-based) of the returned ranking
RowRecord(i) ==
    CHOOSE r \in {climbs_info[j] : j \in 1..Len(climbs_info)} : r.name = matches[i + 1].name

\* the digit a rank key stands for
RankOf(k) == CHOOSE n \in 0..7 : <<"0", "1", "2", "3", "4", "5", "6", "7">>[n + 1] = k

\* C22: on entering process_climb_entry an entry without climb_info gets the
\* registry record of the top-ranked row and an entry with climb_info keeps
\* it; afterwards climb_info changes only at a keystroke, and only by a rank
\* key whose index is below the number of returned rows (which gives the
\* record of that row), by "c" or by "n"; a rank key at or beyond the number
\* of rows leaves climb_info as it is.
C22_RankingIsAdvisory ==
    /\ [][AfterRanking =>
            climb_entry'.climb_info =
                IF climb_entry.climb_info = None THEN RowRecord(0)
                ELSE climb_entry.climb_info]_vars
    /\ [][climb_entry'.climb_info # climb_entry.climb_info =>
            \/ AfterRanking /\ climb_entry.climb_info = None
            \/ /\ Keystroke
               /\ \/ key' \in {"c", "n"}
                  \/ /\ key' \in RankKeys
                     /\ RankOf(key') < Len(matches)
                     /\ climb_entry'.climb_info = RowRecord(RankOf(key'))]_vars
    /\ [][(Keystroke /\ key' \in RankKeys /\ RankOf(key') >= Len(matches)) =>
            climb_entry'.climb_info = climb_entry.climb_info]_vars

\* the entry came with the record of Armed & Dangerous; the ranking puts
\* Kundalini first, no key has been pressed, and the entry has its record still
C22_Witness ==
    /\ proc_pc = "key"
    /\ key = ""
    /\ matches # <<>>
    /\ matches[1].name = NameKundalini
    /\ climb_entry.climb_info = InfoArmedAndDangerous

(***************************************************************************)
(* The entries and the registry (checked under SpecProc).                  *)
(***************************************************************************)
\* the entry names no climb, or the climb the registry holds under that name
Registered(entry) ==
    \/ entry.climb_info = None
    \/ \E i \in 1..Len(climbs_info) : climbs_info[i] = entry.climb_info

\* C23: whenever process_climb_entry has returned, and for every entry of
\* every ClimbingDay in the day store, the entry's climb_info is unset or
\* equal to the record the registry holds under climb_info.name.
C23_EntriesReferToRegistry ==
    /\ Left => Registered(climb_entry)
    /\ \A d \in climbing_days :
        \A i \in 1..Len(d.climb_entries) : Registered(d.climb_entries[i])

=============================================================================
